---- MODULE Spec2Model ----
(***************************************************************************)
(* Model of reflector.go: GetServices, getMethodDescriptor,                *)
(* getMessageSchema and FormatServices.                                    *)
(*                                                                         *)
(* Go strings are sequences of one-character strings, so that Split,       *)
(* TrimPrefix and Sprintf are computed character by character.  A Go value  *)
(* that may be nil (an error, a *MessageSchema, a descriptor) is a         *)
(* sequence of length 0 (nil) or 1 (the value).                            *)
(***************************************************************************)
EXTENDS Integers, Sequences, FiniteSets, TLC

VARIABLES
    files,          \* protoregistry.GlobalFiles: the loaded file descriptors
    serviceInfo,    \* server.GetServiceInfo(): service name -> [Methods]
    pc,             \* position of the running function
    \* GetServices
    pending,        \* service names the range over serviceInfo has not yielded
    svcOrder,       \* history: service names in the order the range yielded them
    service,        \* the ServiceInfo being built (line 49)
    methodIdx,      \* number of info.Methods already processed (line 55)
    services,       \* the result slice (line 43)
    retErr,         \* the error GetServices returns
    \* getMethodDescriptor
    fullMethodName, \* argument
    parts,          \* line 89
    visited,        \* indices of the files RangeFiles has passed to the callback
    fileOrder,      \* history: those indices in the order they were passed
    examined,       \* history: <<file, service, method>> positions looked at
    methodDesc,     \* line 97, a position in files, or nil
    mdRet,          \* the pair getMethodDescriptor returns
    \* getMessageSchema
    msgDesc,        \* argument
    schemaRet,      \* the pair getMessageSchema returns
    \* FormatServices
    fmtIn,          \* argument
    sb              \* strings.Builder contents, then the returned string

vars == <<files, serviceInfo, pc, pending, svcOrder, service, methodIdx,
          services, retErr, fullMethodName, parts, visited, fileOrder,
          examined, methodDesc, mdRet, msgDesc, schemaRet, fmtIn, sb>>

getServicesVars == <<serviceInfo, pending, svcOrder, service, methodIdx,
                     services, retErr>>
resolveVars == <<fullMethodName, parts, visited, fileOrder, examined,
                 methodDesc, mdRet>>
schemaVars == <<msgDesc, schemaRet>>
formatVars == <<fmtIn, sb>>

----------------------------------------------------------------------------
(* Bounds *)

MaxFiles == 2        \* files in the descriptor registry
MaxRegistered == 3   \* methods registered on the server, over all services
MaxFields == 3       \* fields of a message given to getMessageSchema
MaxItems == 4        \* services plus methods given to FormatServices

----------------------------------------------------------------------------
(* Go values *)

Nil == <<>>
Some(x) == <<x>>
Val(o) == o[1]

SeqsUpTo(S, n) == UNION {[1..k -> S] : k \in 0..n}

Last(s) == s[Len(s)]

RECURSIVE Concat(_)
Concat(ss) == IF ss = <<>> THEN <<>> ELSE Head(ss) \o Concat(Tail(ss))

\* strings.TrimPrefix(s, prefix)
TrimPrefix(s, prefix) ==
    IF Len(s) >= Len(prefix) /\ SubSeq(s, 1, Len(prefix)) = prefix
    THEN SubSeq(s, Len(prefix) + 1, Len(s))
    ELSE s

\* strings.Split(s, sep) for a one-character sep: the segments between the
\* occurrences of sep; a string without sep (the empty string too) is one segment.
RECURSIVE Split(_, _)
Split(s, sep) ==
    LET hits == {i \in 1..Len(s) : s[i] = sep}
    IN  IF hits = {} THEN <<s>>
        ELSE LET i == CHOOSE h \in hits : \A g \in hits : h <= g
             IN  <<SubSeq(s, 1, i - 1)>> \o Split(SubSeq(s, i + 1, Len(s)), sep)

\* fmt.Sprintf("/%s/%s", a, b)
SprintfFullMethodName(a, b) == <<"/">> \o a \o <<"/">> \o b

\* fmt.Errorf(format, arg)
Errorf(format, arg) == [format |-> format, arg |-> arg]

ErrInvalidFormat(name) == Errorf("invalid method name format: %s", name)
ErrNotFound(name) == Errorf("method descriptor not found for %s", name)
ErrNilDescriptor == Errorf("message descriptor is nil", <<>>)

----------------------------------------------------------------------------
(* protoreflect descriptors *)

\* protoreflect.Kind.String() on the kinds the model uses
KindString(kind) ==
    CASE kind = "StringKind"  -> <<"s", "t", "r", "i", "n", "g">>
      [] kind = "Int32Kind"   -> <<"i", "n", "t", "3", "2">>
      [] kind = "GroupKind"   -> <<"g", "r", "o", "u", "p">>
      [] kind = "MessageKind" -> <<"m", "e", "s", "s", "a", "g", "e">>

\* Field descriptors: Message is field.Message(), nil unless the kind is
\* message or group.
FieldDescs ==
    { [Name |-> <<"a">>, Number |-> 1, Kind |-> "StringKind",
       Cardinality |-> "Optional", Message |-> Nil],
      [Name |-> <<"b">>, Number |-> 2, Kind |-> "MessageKind",
       Cardinality |-> "Repeated", Message |-> Some([FullName |-> <<"P">>])],
      [Name |-> <<"c">>, Number |-> 3, Kind |-> "Int32Kind",
       Cardinality |-> "Repeated", Message |-> Nil],
      [Name |-> <<"a">>, Number |-> 2, Kind |-> "MessageKind",
       Cardinality |-> "Optional", Message |-> Some([FullName |-> <<"Q">>])],
      [Name |-> <<"d">>, Number |-> 5, Kind |-> "GroupKind",
       Cardinality |-> "Required", Message |-> Some([FullName |-> <<"G">>])],
      [Name |-> <<"c">>, Number |-> 4, Kind |-> "StringKind",
       Cardinality |-> "Required", Message |-> Nil] }

\* A message declares no two fields with the same name or number.
DistinctFields(fs) ==
    \A i, j \in 1..Len(fs) :
        i # j => fs[i].Name # fs[j].Name /\ fs[i].Number # fs[j].Number

MessageDescs ==
    { [FullName |-> n, Fields |-> fs] :
        n \in {<<"Q">>, <<"P">>},
        fs \in {f \in SeqsUpTo(FieldDescs, MaxFields) : DistinctFields(f)} }

FieldsOf(names) == [k \in 1..Len(names) |-> CHOOSE f \in FieldDescs : f.Name = names[k][1] /\ f.Number = names[k][2]]

MsgQ == [FullName |-> <<"Q">>, Fields |-> FieldsOf(<< <<<<"a">>, 1>>, <<<<"b">>, 2>> >>)]
MsgP == [FullName |-> <<"P">>, Fields |-> FieldsOf(<< <<<<"c">>, 3>> >>)]

\* Method descriptors: MdM and MdM2 are two declarations of a method m.
MdM  == [Name |-> <<"m">>, Input |-> MsgQ, Output |-> MsgP]
MdM2 == [Name |-> <<"m">>, Input |-> MsgP, Output |-> MsgP]
MdN  == [Name |-> <<"n">>, Input |-> MsgP, Output |-> MsgQ]

Sd(name, methods) == [FullName |-> name, Methods |-> methods]

\* File descriptors.  Within a file full names are unique; two files of the
\* registry may declare the same service (registration conflicts ignored).
FileDescs ==
    { [Services |-> <<>>],
      [Services |-> <<Sd(<<"s">>, <<MdM>>)>>],
      [Services |-> <<Sd(<<"s">>, <<MdN, MdM2>>)>>],
      [Services |-> <<Sd(<<"t">>, <<MdM>>), Sd(<<"s">>, <<MdN>>)>>],
      [Services |-> <<Sd(<<"t">>, <<>>), Sd(<<"s", ".", "t">>, <<MdN, MdM>>)>>] }

Registries == SeqsUpTo(FileDescs, MaxFiles)

\* The descriptor at a position <<file, service, method>> of the registry
MethodAt(pos) == files[pos[1]].Services[pos[2]].Methods[pos[3]]
ServiceAt(pos) == files[pos[1]].Services[pos[2]]

----------------------------------------------------------------------------
(* getMethodDescriptor *)

\* The loop of lines 104-110 from index j on: the first method named
\* methodName, and the indices looked at.
RECURSIVE MethodLoop(_, _, _)
MethodLoop(methods, j, methodName) ==
    IF j > Len(methods) THEN [hit |-> 0, seen |-> <<>>]
    ELSE IF methods[j].Name = methodName THEN [hit |-> j, seen |-> <<j>>]
    ELSE LET r == MethodLoop(methods, j + 1, methodName)
         IN  [hit |-> r.hit, seen |-> <<j>> \o r.seen]

\* The loop of lines 100-112 from index i on.  cont is the callback's return
\* value; md is <<i, j>> of the method found; seen lists what was looked at,
\* <<i, 0>> for service i and <<i, j>> for its method j.
RECURSIVE ServiceLoop(_, _, _, _)
ServiceLoop(svcs, i, serviceName, methodName) ==
    IF i > Len(svcs) THEN [cont |-> TRUE, md |-> Nil, seen |-> <<>>]
    ELSE LET sd == svcs[i]
             m == MethodLoop(sd.Methods, 1, methodName)
             rest == ServiceLoop(svcs, i + 1, serviceName, methodName)
         IN  IF sd.FullName # serviceName
             THEN [rest EXCEPT !.seen = <<<<i, 0>>>> \o @]
             ELSE LET looked == <<<<i, 0>>>> \o [k \in 1..Len(m.seen) |-> <<i, m.seen[k]>>]
                  IN  IF m.hit # 0
                      THEN [cont |-> FALSE, md |-> <<i, m.hit>>, seen |-> looked]
                      ELSE [rest EXCEPT !.seen = looked \o @]

\* Callback with line 113 returning false: the range ends after one file.
CallbackStopsAfterFile(fd, serviceName, methodName) ==
    [ServiceLoop(fd.Services, 1, serviceName, methodName) EXCEPT !.cont = FALSE]

\* Callback without the comparison of line 102: the first method of that
\* name in the file, whatever its service.
CallbackIgnoresService(fd, serviceName, methodName) ==
    LET has(i) == {j \in 1..Len(fd.Services[i].Methods) :
                     fd.Services[i].Methods[j].Name = methodName}
        hits == {i \in 1..Len(fd.Services) : has(i) # {}}
    IN  IF hits = {} THEN [cont |-> TRUE, md |-> Nil, seen |-> <<>>]
        ELSE LET i == CHOOSE h \in hits : \A g \in hits : h <= g
                 j == CHOOSE h \in has(i) : \A g \in has(i) : h <= g
             IN  [cont |-> FALSE, md |-> <<i, j>>, seen |-> <<<<i, 0>>, <<i, j>>>>]

\* The function passed to RangeFiles (lines 98-114)
Callback(fd, serviceName, methodName) ==
    ServiceLoop(fd.Services, 1, serviceName, methodName)

\* lines 89-94
ResolveParse ==
    /\ pc = "resolve.parse"
    /\ LET p == Split(TrimPrefix(fullMethodName, <<"/">>), "/")
       IN  /\ parts' = p
           /\ IF Len(p) # 2
              THEN /\ mdRet' = [desc |-> Nil, err |-> Some(ErrInvalidFormat(fullMethodName))]
                   /\ pc' = "resolve.done"
              ELSE /\ mdRet' = mdRet
                   /\ pc' = "resolve.range"
    /\ UNCHANGED <<files, fullMethodName, visited, fileOrder, examined, methodDesc>>
    /\ UNCHANGED <<getServicesVars, schemaVars, formatVars>>

\* ResolveRangeFile without the return of line 108 ending the range: the
\* remaining files are passed too.
ResolveRangeFileNoStop ==
    /\ pc = "resolve.range"
    /\ \E f \in (1..Len(files)) \ visited :
         LET r == Callback(files[f], parts[1], parts[2])
         IN  /\ visited' = visited \cup {f}
             /\ fileOrder' = Append(fileOrder, f)
             /\ examined' = examined \o [k \in 1..Len(r.seen) |-> <<f, r.seen[k][1], r.seen[k][2]>>]
             /\ methodDesc' = IF r.md # Nil THEN Some(<<f, r.md[1], r.md[2]>>) ELSE methodDesc
             /\ pc' = "resolve.range"
    /\ UNCHANGED <<files, fullMethodName, parts, mdRet>>
    /\ UNCHANGED <<getServicesVars, schemaVars, formatVars>>

\* RangeFiles passes one more file to the callback; the order is the
\* registry's (a Go map range), so any file not yet passed may come next.
ResolveRangeFile ==
    /\ pc = "resolve.range"
    /\ \E f \in (1..Len(files)) \ visited :
         LET r == Callback(files[f], parts[1], parts[2])
         IN  /\ visited' = visited \cup {f}
             /\ fileOrder' = Append(fileOrder, f)
             /\ examined' = examined \o [k \in 1..Len(r.seen) |-> <<f, r.seen[k][1], r.seen[k][2]>>]
             /\ methodDesc' = IF r.md # Nil THEN Some(<<f, r.md[1], r.md[2]>>) ELSE methodDesc
             /\ pc' = IF r.cont THEN "resolve.range" ELSE "resolve.check"
    /\ UNCHANGED <<files, fullMethodName, parts, mdRet>>
    /\ UNCHANGED <<getServicesVars, schemaVars, formatVars>>

\* RangeFiles returns after the last file
ResolveRangeEnd ==
    /\ pc = "resolve.range"
    /\ visited = 1..Len(files)
    /\ pc' = "resolve.check"
    /\ UNCHANGED <<files, resolveVars, getServicesVars, schemaVars, formatVars>>

\* lines 116-120
ResolveReturn ==
    /\ pc = "resolve.check"
    /\ mdRet' = IF methodDesc = Nil
                THEN [desc |-> Nil, err |-> Some(ErrNotFound(fullMethodName))]
                ELSE [desc |-> methodDesc, err |-> Nil]
    /\ pc' = "resolve.done"
    /\ UNCHANGED <<files, fullMethodName, parts, visited, fileOrder, examined, methodDesc>>
    /\ UNCHANGED <<getServicesVars, schemaVars, formatVars>>

\* Arguments for getMethodDescriptor
FullMethodNames ==
    { <<>>,
      <<"/">>,
      <<"s">>,
      <<"/", "s">>,
      <<"/", "s", "/">>,
      <<"s", "/">>,
      <<"/", "/", "m">>,
      <<"/", "/">>,
      <<"/", "s", "/", "m">>,
      <<"s", "/", "m">>,
      <<"/", "s", "/", "n">>,
      <<"/", "t", "/", "m">>,
      <<"/", "t", "/", "n">>,
      <<"/", "s", ".", "t", "/", "m">>,
      <<"/", "m", "/", "s">>,
      <<"/", "s", "/", "m", "/">>,
      <<"/", "s", "/", "m", "/", "n">>,
      <<"/", "/", "s", "/", "m">> }

IdleGetServices ==
    /\ serviceInfo = <<>>
    /\ pending = {}
    /\ svcOrder = <<>>
    /\ service = Nil
    /\ methodIdx = 0
    /\ services = <<>>
    /\ retErr = Nil

IdleResolve ==
    /\ fullMethodName = <<>>
    /\ parts = <<>>
    /\ visited = {}
    /\ fileOrder = <<>>
    /\ examined = <<>>
    /\ methodDesc = Nil
    /\ mdRet = [desc |-> Nil, err |-> Nil]

IdleSchema ==
    /\ msgDesc = Nil
    /\ schemaRet = [schema |-> Nil, err |-> Nil]

IdleFormat ==
    /\ fmtIn = <<>>
    /\ sb = <<>>

InitResolve ==
    /\ files \in Registries
    /\ pc = "resolve.parse"
    /\ IdleGetServices
    /\ fullMethodName \in FullMethodNames
    /\ parts = <<>>
    /\ visited = {}
    /\ fileOrder = <<>>
    /\ examined = <<>>
    /\ methodDesc = Nil
    /\ mdRet = [desc |-> Nil, err |-> Nil]
    /\ IdleSchema
    /\ IdleFormat

NextResolve ==
    \/ ResolveParse
    \/ ResolveRangeFile
    \/ ResolveRangeEnd
    \/ ResolveReturn

SpecResolve == InitResolve /\ [][NextResolve]_vars

----------------------------------------------------------------------------
(* getMessageSchema *)

\* FieldInfoOf without lines 145-147
FieldInfoOfKindOnly(field) ==
    [Name     |-> field.Name,
     Number   |-> field.Number,
     Type     |-> KindString(field.Kind),
     Repeated |-> field.Cardinality = "Repeated"]

\* lines 136-149: the FieldInfo of one field
FieldInfoOf(field) ==
    LET fieldInfo == [Name     |-> field.Name,
                      Number   |-> field.Number,
                      Type     |-> KindString(field.Kind),
                      Repeated |-> field.Cardinality = "Repeated"]
    IN  IF field.Kind = "MessageKind"
        THEN [fieldInfo EXCEPT !.Type = Val(field.Message).FullName]
        ELSE fieldInfo

\* getMessageSchema with the loop of line 135 ending one field early
getMessageSchemaPartial(md) ==
    IF md = Nil
    THEN [schema |-> Nil, err |-> Some(ErrNilDescriptor)]
    ELSE LET fields == Val(md).Fields
         IN  [schema |-> Some([Name   |-> Val(md).FullName,
                               Fields |-> [i \in 1..(Len(fields) - 1) |-> FieldInfoOf(fields[i])]]),
              err |-> Nil]

\* lines 124-153; md is nil or a message descriptor
getMessageSchema(md) ==
    IF md = Nil
    THEN [schema |-> Nil, err |-> Some(ErrNilDescriptor)]
    ELSE LET fields == Val(md).Fields
         IN  [schema |-> Some([Name   |-> Val(md).FullName,
                               Fields |-> [i \in 1..Len(fields) |-> FieldInfoOf(fields[i])]]),
              err |-> Nil]

GetMessageSchemaCall ==
    /\ pc = "schema.call"
    /\ schemaRet' = getMessageSchema(msgDesc)
    /\ pc' = "schema.done"
    /\ UNCHANGED <<files, msgDesc, getServicesVars, resolveVars, formatVars>>

InitSchema ==
    /\ files = <<>>
    /\ pc = "schema.call"
    /\ IdleGetServices
    /\ IdleResolve
    /\ msgDesc \in {Nil} \cup {Some(m) : m \in MessageDescs}
    /\ schemaRet = [schema |-> Nil, err |-> Nil]
    /\ IdleFormat

NextSchema == GetMessageSchemaCall

SpecSchema == InitSchema /\ [][NextSchema]_vars

----------------------------------------------------------------------------
(* GetServices *)

\* Names under which services and methods are registered on the server
ServerServiceNames == {<<"s">>, <<"t">>}
ServerMethodNames == {<<"m">>, <<"m", "/", "n">>}

RECURSIVE SumOver(_, _)
SumOver(f, S) ==
    IF S = {} THEN 0
    ELSE LET x == CHOOSE y \in S : TRUE IN f[x] + SumOver(f, S \ {x})

\* What server.GetServiceInfo() can return: a map from service name to the
\* list of the service's methods.
ServiceInfos ==
    LET lists == SeqsUpTo({[Name |-> n] : n \in ServerMethodNames}, MaxRegistered)
        maps == UNION {[S -> {[Methods |-> l] : l \in lists}] : S \in SUBSET ServerServiceNames}
    IN  {m \in maps :
            SumOver([n \in DOMAIN m |-> Len(m[n].Methods)], DOMAIN m) <= MaxRegistered}

\* lines 56-75: the MethodInfo of a method, from what getMethodDescriptor returned
MethodInfoOf(method, ret) ==
    LET methodInfo == [Name |-> method.Name, InputType |-> <<>>, OutputType |-> <<>>,
                       InputSchema |-> Nil, OutputSchema |-> Nil]
    IN  IF ret.err # Nil THEN methodInfo
        ELSE LET desc == MethodAt(Val(ret.desc))
                 input == getMessageSchema(Some(desc.Input))
                 output == getMessageSchema(Some(desc.Output))
             IN  [methodInfo EXCEPT
                    !.InputType = desc.Input.FullName,
                    !.OutputType = desc.Output.FullName,
                    !.InputSchema = IF input.err = Nil THEN input.schema ELSE @,
                    !.OutputSchema = IF output.err = Nil THEN output.schema ELSE @]

\* lines 48-52: the range over the map yields one more service, in any order
GSRange ==
    /\ pc = "gs.range"
    /\ \E serviceName \in pending :
         /\ pending' = pending \ {serviceName}
         /\ svcOrder' = Append(svcOrder, serviceName)
         /\ service' = Some([Name |-> serviceName, Methods |-> <<>>])
    /\ methodIdx' = 0
    /\ pc' = "gs.methods"
    /\ UNCHANGED <<files, serviceInfo, services, retErr, resolveVars, schemaVars, formatVars>>

\* lines 55-62: the next method of the service; getMethodDescriptor is called
GSMethodCall ==
    /\ pc = "gs.methods"
    /\ methodIdx < Len(serviceInfo[Val(service).Name].Methods)
    /\ LET method == serviceInfo[Val(service).Name].Methods[methodIdx + 1]
       IN  fullMethodName' = SprintfFullMethodName(Val(service).Name, method.Name)
    /\ parts' = <<>>
    /\ visited' = {}
    /\ fileOrder' = <<>>
    /\ examined' = <<>>
    /\ methodDesc' = Nil
    /\ mdRet' = [desc |-> Nil, err |-> Nil]
    /\ pc' = "resolve.parse"
    /\ UNCHANGED <<files, getServicesVars, schemaVars, formatVars>>

\* GSMethodAppend returning the error of getMethodDescriptor to the caller
GSMethodAppendOrFail ==
    /\ pc = "resolve.done"
    /\ LET method == serviceInfo[Val(service).Name].Methods[methodIdx + 1]
       IN  IF mdRet.err # Nil
           THEN /\ retErr' = mdRet.err
                /\ pc' = "gs.done"
                /\ UNCHANGED <<service, methodIdx>>
           ELSE /\ service' = Some([Val(service) EXCEPT
                                      !.Methods = Append(@, MethodInfoOf(method, mdRet))])
                /\ methodIdx' = methodIdx + 1
                /\ pc' = "gs.methods"
                /\ retErr' = retErr
    /\ fullMethodName' = <<>>
    /\ parts' = <<>>
    /\ visited' = {}
    /\ fileOrder' = <<>>
    /\ examined' = <<>>
    /\ methodDesc' = Nil
    /\ mdRet' = [desc |-> Nil, err |-> Nil]
    /\ UNCHANGED <<files, serviceInfo, pending, svcOrder, services,
                   schemaVars, formatVars>>

\* GSMethodAppend with line 77 inside the branch of line 62
GSMethodAppendSkipUnresolved ==
    /\ pc = "resolve.done"
    /\ LET method == serviceInfo[Val(service).Name].Methods[methodIdx + 1]
       IN  service' = IF mdRet.err # Nil THEN service
                      ELSE Some([Val(service) EXCEPT
                                   !.Methods = Append(@, MethodInfoOf(method, mdRet))])
    /\ methodIdx' = methodIdx + 1
    /\ fullMethodName' = <<>>
    /\ parts' = <<>>
    /\ visited' = {}
    /\ fileOrder' = <<>>
    /\ examined' = <<>>
    /\ methodDesc' = Nil
    /\ mdRet' = [desc |-> Nil, err |-> Nil]
    /\ pc' = "gs.methods"
    /\ UNCHANGED <<files, serviceInfo, pending, svcOrder, services, retErr,
                   schemaVars, formatVars>>

\* lines 62-77: getMethodDescriptor has returned
GSMethodAppend ==
    /\ pc = "resolve.done"
    /\ LET method == serviceInfo[Val(service).Name].Methods[methodIdx + 1]
       IN  service' = Some([Val(service) EXCEPT
                              !.Methods = Append(@, MethodInfoOf(method, mdRet))])
    /\ methodIdx' = methodIdx + 1
    /\ fullMethodName' = <<>>
    /\ parts' = <<>>
    /\ visited' = {}
    /\ fileOrder' = <<>>
    /\ examined' = <<>>
    /\ methodDesc' = Nil
    /\ mdRet' = [desc |-> Nil, err |-> Nil]
    /\ pc' = "gs.methods"
    /\ UNCHANGED <<files, serviceInfo, pending, svcOrder, services, retErr,
                   schemaVars, formatVars>>

\* GSServiceAppend putting the service in front
GSServicePrepend ==
    /\ pc = "gs.methods"
    /\ methodIdx = Len(serviceInfo[Val(service).Name].Methods)
    /\ services' = <<Val(service)>> \o services
    /\ service' = Nil
    /\ pc' = "gs.range"
    /\ UNCHANGED <<files, serviceInfo, pending, svcOrder, methodIdx, retErr,
                   resolveVars, schemaVars, formatVars>>

\* line 80
GSServiceAppend ==
    /\ pc = "gs.methods"
    /\ methodIdx = Len(serviceInfo[Val(service).Name].Methods)
    /\ services' = Append(services, Val(service))
    /\ service' = Nil
    /\ pc' = "gs.range"
    /\ UNCHANGED <<files, serviceInfo, pending, svcOrder, methodIdx, retErr,
                   resolveVars, schemaVars, formatVars>>

\* line 83
GSReturn ==
    /\ pc = "gs.range"
    /\ pending = {}
    /\ retErr' = Nil
    /\ pc' = "gs.done"
    /\ UNCHANGED <<files, serviceInfo, pending, svcOrder, service, methodIdx, services,
                   resolveVars, schemaVars, formatVars>>

Init ==
    /\ files \in Registries
    /\ serviceInfo \in ServiceInfos
    /\ pc = "gs.range"
    /\ pending = DOMAIN serviceInfo
    /\ svcOrder = <<>>
    /\ service = Nil
    /\ methodIdx = 0
    /\ services = <<>>
    /\ retErr = Some(Errorf("not returned", <<>>))
    /\ IdleResolve
    /\ IdleSchema
    /\ IdleFormat

Next ==
    \/ GSRange
    \/ GSMethodCall
    \/ ResolveParse
    \/ ResolveRangeFile
    \/ ResolveRangeEnd
    \/ ResolveReturn
    \/ GSMethodAppend
    \/ GSServiceAppend
    \/ GSReturn

Spec == Init /\ [][Next]_vars

----------------------------------------------------------------------------
(* FormatServices *)

\* FormatMethod with || for the && of line 163
FormatMethodEitherType(method) ==
    <<" ", " ", " ", " ", "*", " ">> \o method.Name
    \o (IF method.InputType # <<>> \/ method.OutputType # <<>>
        THEN <<"(">> \o method.InputType
             \o <<")", " ", "r", "e", "t", "u", "r", "n", "s", " ", "(">>
             \o method.OutputType \o <<")">>
        ELSE <<>>)
    \o <<"\n">>

\* lines 162-166: what one method adds to the builder
FormatMethod(method) ==
    <<" ", " ", " ", " ", "*", " ">> \o method.Name
    \o (IF method.InputType # <<>> /\ method.OutputType # <<>>
        THEN <<"(">> \o method.InputType
             \o <<")", " ", "r", "e", "t", "u", "r", "n", "s", " ", "(">>
             \o method.OutputType \o <<")">>
        ELSE <<>>)
    \o <<"\n">>

\* lines 160-167: what one service adds to the builder
FormatService(svc) ==
    <<" ", " ", "-", " ">> \o svc.Name \o <<"\n">>
    \o Concat([k \in 1..Len(svc.Methods) |-> FormatMethod(svc.Methods[k])])

\* lines 156-171
FormatServices(svcs) ==
    Concat([k \in 1..Len(svcs) |-> FormatService(svcs[k])])

FormatServicesCall ==
    /\ pc = "format.call"
    /\ sb' = FormatServices(fmtIn)
    /\ pc' = "format.done"
    /\ UNCHANGED <<files, fmtIn, getServicesVars, resolveVars, schemaVars>>

\* Arguments for FormatServices are written as a list of items, a service
\* name or a method; a method belongs to the last service named before it.
FormatItems ==
    { [tag |-> "service", Name |-> n, InputType |-> <<>>, OutputType |-> <<>>] :
        n \in {<<"s">>, <<"t">>} }
    \cup
    { [tag |-> "method", Name |-> <<"m">>, InputType |-> i, OutputType |-> o] :
        i \in {<<>>, <<"Q">>}, o \in {<<>>, <<"P">>} }

RECURSIVE ServicesOfItems(_)
ServicesOfItems(items) ==
    IF items = <<>> THEN <<>>
    ELSE LET it == Last(items)
             before == ServicesOfItems(SubSeq(items, 1, Len(items) - 1))
         IN  IF it.tag = "service"
             THEN Append(before, [Name |-> it.Name, Methods |-> <<>>])
             ELSE [before EXCEPT ![Len(before)].Methods =
                      Append(@, [Name |-> it.Name, InputType |-> it.InputType,
                                 OutputType |-> it.OutputType,
                                 InputSchema |-> Nil, OutputSchema |-> Nil])]

FormatInputs ==
    { ServicesOfItems(items) :
        items \in {x \in SeqsUpTo(FormatItems, MaxItems) :
                     x = <<>> \/ x[1].tag = "service"} }

InitFormat ==
    /\ files = <<>>
    /\ pc = "format.call"
    /\ IdleGetServices
    /\ IdleResolve
    /\ IdleSchema
    /\ fmtIn \in FormatInputs
    /\ sb = <<>>

NextFormat == FormatServicesCall

SpecFormat == InitFormat /\ [][NextFormat]_vars

----------------------------------------------------------------------------
(* Vocabulary of the properties *)

\* Every <<file, service, method>> position of the descriptor registry
Positions ==
    UNION { UNION { { <<f, i, j>> : j \in 1..Len(files[f].Services[i].Methods) } :
                    i \in 1..Len(files[f].Services) } :
            f \in 1..Len(files) }

\* The positions of a method named methodName in a service named serviceName
Matches(serviceName, methodName) ==
    {p \in Positions : /\ ServiceAt(p).FullName = serviceName
                       /\ MethodAt(p).Name = methodName}

\* A name without one leading slash
Stripped(name) == IF name # <<>> /\ name[1] = "/" THEN Tail(name) ELSE name

\* t holds exactly one slash, with something on both sides of it
TwoNonEmptySegments(t) ==
    \E k \in 2..(Len(t) - 1) :
        /\ t[k] = "/"
        /\ \A i \in 1..Len(t) : i # k => t[i] # "/"

SlashAt(t) == CHOOSE k \in 1..Len(t) : t[k] = "/"
ServiceSegment(name) == LET t == Stripped(name) IN SubSeq(t, 1, SlashAt(t) - 1)
MethodSegment(name) == LET t == Stripped(name) IN SubSeq(t, SlashAt(t) + 1, Len(t))

\* The field list a schema of message descriptor msg must carry
IsSchemaOf(schema, msg) ==
    /\ schema.Name = msg.FullName
    /\ Len(schema.Fields) = Len(msg.Fields)
    /\ \A i \in 1..Len(msg.Fields) :
          LET fi == schema.Fields[i]
              fd == msg.Fields[i]
          IN  /\ fi.Name = fd.Name
              /\ fi.Number = fd.Number
              /\ fi.Repeated = (fd.Cardinality = "Repeated")
              /\ fi.Type = IF fd.Kind = "MessageKind"
                           THEN Val(fd.Message).FullName
                           ELSE KindString(fd.Kind)

AbsentTypes(mi) ==
    /\ mi.InputType = <<>>
    /\ mi.OutputType = <<>>
    /\ mi.InputSchema = Nil
    /\ mi.OutputSchema = Nil

\* mi carries the types and schemas of the method descriptor md
EnrichedFrom(mi, md) ==
    /\ mi.InputType = md.Input.FullName
    /\ mi.OutputType = md.Output.FullName
    /\ mi.InputSchema # Nil
    /\ IsSchemaOf(Val(mi.InputSchema), md.Input)
    /\ mi.OutputSchema # Nil
    /\ IsSchemaOf(Val(mi.OutputSchema), md.Output)

Registered(k) == serviceInfo[services[k].Name].Methods

----------------------------------------------------------------------------
(* Properties *)

\* C1: GetServices returns a nil error whatever getMethodDescriptor found;
\* a method without a matching descriptor is listed with its name and with
\* empty type names and nil schemas, and every method with a matching
\* descriptor carries that descriptor's types and schemas, whichever other
\* methods are unresolved.
C1_UnresolvedMethodIsNotFatal ==
    pc = "gs.done" =>
        /\ retErr = Nil
        /\ \A k \in 1..Len(services) :
              /\ services[k].Name \in DOMAIN serviceInfo
              /\ Len(services[k].Methods) = Len(Registered(k))
              /\ \A j \in 1..Len(services[k].Methods) :
                    LET mi == services[k].Methods[j]
                        found == Matches(services[k].Name, Registered(k)[j].Name)
                    IN  /\ mi.Name = Registered(k)[j].Name
                        /\ found = {} => AbsentTypes(mi)
                        /\ found # {} => \E p \in found : EnrichedFrom(mi, MethodAt(p))

C1_Witness ==
    /\ pc = "gs.done"
    /\ \E k \in 1..Len(services) :
          \E i, j \in 1..Len(services[k].Methods) :
              /\ AbsentTypes(services[k].Methods[i])
              /\ services[k].Methods[j].InputType # <<>>

\* C2: getMethodDescriptor returns the invalid-format error for every name
\* that, without one leading slash, is not two non-empty segments around
\* one slash.
C2_EmptySegmentIsMalformed ==
    (pc = "resolve.done" /\ ~TwoNonEmptySegments(Stripped(fullMethodName)))
        => mdRet.err = Some(ErrInvalidFormat(fullMethodName))

\* C3: for a well-formed name whose service and method are declared nowhere
\* in the registry, getMethodDescriptor returns the not-found error and no
\* descriptor, having passed every file, looked at every service, and at
\* every method of every service of that name.
C3_NotFoundAfterFullScan ==
    (/\ pc = "resolve.done"
     /\ TwoNonEmptySegments(Stripped(fullMethodName))
     /\ Matches(ServiceSegment(fullMethodName), MethodSegment(fullMethodName)) = {})
        => /\ mdRet.err = Some(ErrNotFound(fullMethodName))
           /\ mdRet.desc = Nil
           /\ visited = 1..Len(files)
           /\ \A f \in 1..Len(files) : \A i \in 1..Len(files[f].Services) :
                 /\ \E e \in 1..Len(examined) : examined[e] = <<f, i, 0>>
                 /\ files[f].Services[i].FullName = ServiceSegment(fullMethodName)
                      => \A j \in 1..Len(files[f].Services[i].Methods) :
                            \E e \in 1..Len(examined) : examined[e] = <<f, i, j>>

C3_Witness ==
    /\ pc = "resolve.done"
    /\ TwoNonEmptySegments(Stripped(fullMethodName))
    /\ Len(files) = MaxFiles
    /\ mdRet.err = Some(ErrNotFound(fullMethodName))
    /\ \E p \in Positions : ServiceAt(p).FullName = ServiceSegment(fullMethodName)

\* C4: for a name /S/M such that the registry declares a service S with a
\* method M, getMethodDescriptor returns a nil error and a descriptor named
\* M whose service is named S.
C4_FoundDescriptorMatches ==
    pc = "resolve.done" =>
        \A p \in Positions :
            fullMethodName = <<"/">> \o ServiceAt(p).FullName \o <<"/">> \o MethodAt(p).Name
                => /\ mdRet.err = Nil
                   /\ mdRet.desc # Nil
                   /\ Val(mdRet.desc) \in Positions
                   /\ MethodAt(Val(mdRet.desc)).Name = MethodAt(p).Name
                   /\ ServiceAt(Val(mdRet.desc)).FullName = ServiceAt(p).FullName

C4_Witness ==
    /\ pc = "resolve.done"
    /\ mdRet.err = Nil
    /\ mdRet.desc # Nil
    /\ Len(fileOrder) = MaxFiles
    /\ Val(mdRet.desc)[3] > 1
    /\ fullMethodName[1] = "/"

\* C5: the services of the result are in the order in which the range over
\* the server's map yielded them, and the methods of each are in the order
\* of the registered method list.
C5_OrderMirrorsRegistry ==
    /\ Len(services) <= Len(svcOrder)
    /\ \A k \in 1..Len(services) : services[k].Name = svcOrder[k]
    /\ pc = "gs.done" =>
          /\ [k \in 1..Len(services) |-> services[k].Name] = svcOrder
          /\ \A k \in 1..Len(services) :
                [j \in 1..Len(services[k].Methods) |-> services[k].Methods[j].Name]
                  = [j \in 1..Len(serviceInfo[svcOrder[k]].Methods) |->
                        serviceInfo[svcOrder[k]].Methods[j].Name]

C5_Witness ==
    /\ pc = "gs.done"
    /\ Len(services) = 2
    /\ \E k \in 1..2 :
          /\ Len(services[k].Methods) = 2
          /\ services[k].Methods[1].Name # services[k].Methods[2].Name

\* The MethodInfo values built so far
BuiltMethodInfos ==
    LET done == UNION { {services[k].Methods[j] : j \in 1..Len(services[k].Methods)} :
                        k \in 1..Len(services) }
    IN  IF service = Nil THEN done
        ELSE done \cup {Val(service).Methods[j] : j \in 1..Len(Val(service).Methods)}

\* C6: a MethodInfo has an input schema only with an input type name, and
\* an output schema only with an output type name; a schema present is
\* the whole field list of a registered message of that name.
C6_SchemaOnlyWithTypeName ==
    \A mi \in BuiltMethodInfos :
        /\ mi.InputSchema # Nil =>
              /\ mi.InputType # <<>>
              /\ \E p \in Positions :
                    /\ MethodAt(p).Input.FullName = mi.InputType
                    /\ IsSchemaOf(Val(mi.InputSchema), MethodAt(p).Input)
        /\ mi.OutputSchema # Nil =>
              /\ mi.OutputType # <<>>
              /\ \E p \in Positions :
                    /\ MethodAt(p).Output.FullName = mi.OutputType
                    /\ IsSchemaOf(Val(mi.OutputSchema), MethodAt(p).Output)

C6_Witness ==
    /\ pc = "gs.done"
    /\ \E mi \in BuiltMethodInfos :
          /\ mi.InputSchema # Nil
          /\ Len(Val(mi.InputSchema).Fields) = 2
          /\ mi.OutputSchema # Nil

\* The lines FormatServices must produce for one method and one service
ExpectedMethodLine(m) ==
    IF m.InputType # <<>> /\ m.OutputType # <<>>
    THEN <<" ", " ", " ", " ", "*", " ">> \o m.Name \o <<"(">> \o m.InputType
         \o <<")", " ", "r", "e", "t", "u", "r", "n", "s", " ", "(">>
         \o m.OutputType \o <<")">>
    ELSE <<" ", " ", " ", " ", "*", " ">> \o m.Name

ExpectedLines(svcs) ==
    Concat([k \in 1..Len(svcs) |->
              <<(<<" ", " ", "-", " ">> \o svcs[k].Name)>>
              \o [j \in 1..Len(svcs[k].Methods) |-> ExpectedMethodLine(svcs[k].Methods[j])]])

\* C7: the string FormatServices returns is, line by line, one "  - name"
\* line per service in order, each followed by one line per method in
\* order: "    * name(input) returns (output)" when both type names are
\* non-empty, "    * name" otherwise; every line ends with a newline.
C7_CompactLines ==
    pc = "format.done" => Split(sb, "\n") = ExpectedLines(fmtIn) \o << <<>> >>

C7_Witness ==
    /\ pc = "format.done"
    /\ Len(fmtIn) = 2
    /\ \E k \in 1..2 : \E i, j \in 1..Len(fmtIn[k].Methods) :
          /\ fmtIn[k].Methods[i].InputType # <<>>
          /\ fmtIn[k].Methods[i].OutputType # <<>>
          /\ fmtIn[k].Methods[j].InputType # <<>>
          /\ fmtIn[k].Methods[j].OutputType = <<>>

\* C8: for a non-nil message descriptor getMessageSchema returns a nil
\* error and a schema with one FieldInfo per declared field, in order, with
\* the field's name and number, Repeated exactly for repeated cardinality,
\* and Type the nested message's full name for a message field and the
\* kind's name for any other.
C8_SchemaMirrorsFields ==
    (pc = "schema.done" /\ msgDesc # Nil) =>
        /\ schemaRet.err = Nil
        /\ schemaRet.schema # Nil
        /\ IsSchemaOf(Val(schemaRet.schema), Val(msgDesc))

C8_Witness ==
    /\ pc = "schema.done"
    /\ msgDesc # Nil
    /\ Len(Val(msgDesc).Fields) = MaxFields
    /\ \E i, j, k \in 1..MaxFields :
          /\ Val(msgDesc).Fields[i].Kind = "MessageKind"
          /\ Val(msgDesc).Fields[i].Cardinality = "Repeated"
          /\ Val(msgDesc).Fields[j].Kind = "GroupKind"
          /\ Val(msgDesc).Fields[k].Kind = "Int32Kind"
          /\ Val(schemaRet.schema).Fields[i].Type = <<"P">>

\* q comes before p in the enumeration: in a file passed earlier, or earlier
\* in the same file
EnumeratedBefore(q, p) ==
    \/ /\ q[1] # p[1]
       /\ \E a, b \in 1..Len(fileOrder) : a < b /\ fileOrder[a] = q[1] /\ fileOrder[b] = p[1]
    \/ /\ q[1] = p[1]
       /\ (q[2] < p[2] \/ (q[2] = p[2] /\ q[3] < p[3]))

\* C9: once getMethodDescriptor has found a method, that method is the last
\* thing it has looked at, its file the last file passed to the callback,
\* and no other match comes before it in the enumeration.
C9_ShortCircuitOnFirstMatch ==
    methodDesc # Nil =>
        LET p == Val(methodDesc)
        IN  /\ p \in Matches(parts[1], parts[2])
            /\ Last(examined) = p
            /\ Last(fileOrder) = p[1]
            /\ \A q \in Matches(parts[1], parts[2]) : ~EnumeratedBefore(q, p)

C9_Witness ==
    /\ pc = "resolve.done"
    /\ methodDesc # Nil
    /\ visited # 1..Len(files)
    /\ Len(files[Val(methodDesc)[1]].Services[Val(methodDesc)[2]].Methods) > Val(methodDesc)[3]
    /\ \E q \in Matches(parts[1], parts[2]) : q # Val(methodDesc)

\* C10: the result has one ServiceInfo per registered service, with its
\* name, none twice, each with one MethodInfo per registered method, the
\* k-th named like the k-th registered method; the error is nil, and the
\* result is empty for a server without services.
C10_ShapePreserved ==
    pc = "gs.done" =>
        /\ retErr = Nil
        /\ Len(services) = Cardinality(DOMAIN serviceInfo)
        /\ {services[k].Name : k \in 1..Len(services)} = DOMAIN serviceInfo
        /\ \A k \in 1..Len(services) :
              /\ Len(services[k].Methods) = Len(serviceInfo[services[k].Name].Methods)
              /\ \A j \in 1..Len(services[k].Methods) :
                    services[k].Methods[j].Name = serviceInfo[services[k].Name].Methods[j].Name
        /\ (DOMAIN serviceInfo = {} => services = <<>>)

C10_Witness ==
    /\ pc = "gs.done"
    /\ Len(services) = 2
    /\ \E k \in 1..2 : \E j \in 1..Len(services[k].Methods) :
          AbsentTypes(services[k].Methods[j])
    /\ \E k \in 1..2 : \E j \in 1..Len(services[k].Methods) :
          services[k].Methods[j].InputType # <<>>

====
